---- MODULE Spec2Model ----
(***************************************************************************)
(* Model of run_local.py: the local bootstrap script (requirement check,   *)
(* dependency install with the .venv fallback, .env synthesis from         *)
(* Keys.txt, application launch).                                          *)
(*                                                                         *)
(* Text is modelled as a sequence of tokens.  A token is a chunk of        *)
(* characters: the one-character tokens " ", "#", "=", ":", "_", the two   *)
(* quote characters and "\n" stand for themselves, every other token is a  *)
(* word of letters/digits.  No two adjacent tokens spell one of the words  *)
(* the code searches for, so a substring test of the code is a membership  *)
(* test on tokens.                                                         *)
(***************************************************************************)
EXTENDS Integers, Sequences, FiniteSets, TLC

\* ------------------------------------------------------------------ bounds
\* Most lines a Keys.txt of the model holds.
MaxLines == 3
\* Most calls of create_env_from_keys in the direct-call specification.
MaxRuns == 2

\* ------------------------------------------------------------ text helpers
\* a path that does not exist; a file that exists holds a sequence of tokens
\* (.env) or of lines (Keys.txt)
NoFile == [exists |-> FALSE, content |-> <<>>]
File(content) == [exists |-> TRUE, content |-> content]

\* the None that install_dependencies returns
None == "None"
\* the None that _parse_key_line returns
NoMatch == <<>>

DQ == "\""
SQ == "'"
NL == "\n"

\* str.upper() on one token
UpperTok(t) ==
  CASE t = "gemini" -> "GEMINI"
    [] t = "Gemini" -> "GEMINI"
    [] t = "openai" -> "OPENAI"
    [] t = "api_key" -> "API_KEY"
    [] t = "foo" -> "FOO"
    [] t = "x" -> "X"
    [] t = "y" -> "Y"
    [] OTHER -> t

\* str.upper()
Upper(s) == [i \in DOMAIN s |-> UpperTok(s[i])]

\* str.lower() on the answers of the confirmation prompt
LowerTok(t) ==
  CASE t = "Y" -> "y"
    [] t = "N" -> "n"
    [] t = "YES" -> "yes"
    [] OTHER -> t

Lower(s) == [i \in DOMAIN s |-> LowerTok(s[i])]

RECURSIVE LStrip(_)
LStrip(s) == IF s # <<>> /\ Head(s) = " " THEN LStrip(Tail(s)) ELSE s

RECURSIVE RStrip(_)
RStrip(s) ==
  IF s # <<>> /\ s[Len(s)] = " " THEN RStrip(SubSeq(s, 1, Len(s) - 1)) ELSE s

\* str.strip()
Strip(s) == RStrip(LStrip(s))

\* `t in s`
Contains(s, t) == \E i \in DOMAIN s : s[i] = t

\* index of the first occurrence of token t in s (0 when absent)
IndexOf(s, t) ==
  IF Contains(s, t) THEN CHOOSE i \in DOMAIN s :
                            s[i] = t /\ \A j \in 1..(i - 1) : s[j] # t
  ELSE 0

\* s.split(t, 1) for a t that occurs in s
SplitLeft(s, t) == SubSeq(s, 1, IndexOf(s, t) - 1)
SplitRight(s, t) == SubSeq(s, IndexOf(s, t) + 1, Len(s))

\* ------------------------------------------------------- Keys.txt parsing
\* _parse_key_line: NoMatch, or <<key, value>>
_parse_key_line(line) ==
  IF Contains(line, "=")
    THEN <<Strip(SplitLeft(line, "=")), Strip(SplitRight(line, "="))>>
  ELSE IF Contains(line, ":")
    THEN <<Strip(SplitLeft(line, ":")), Strip(SplitRight(line, ":"))>>
  ELSE NoMatch

_strip_quotes(value) ==
  LET v == Strip(value) IN
  IF Len(v) >= 2 /\ v[1] = v[Len(v)] /\ v[1] \in {DQ, SQ}
    THEN SubSeq(v, 2, Len(v) - 1)
    ELSE v

_remove_inline_comment(value) ==
  IF Contains(value, "#") THEN Strip(SplitLeft(value, "#")) ELSE Strip(value)

GEMINI_API_KEY == <<"GEMINI", "_", "API_KEY">>
OPENAI_API_KEY == <<"OPENAI", "_", "API_KEY">>

\* A dict is the sequence of its <<key, value>> items in insertion order.
HasKey(d, k) == \E i \in DOMAIN d : d[i][1] = k
Get(d, k, default) ==
  IF HasKey(d, k) THEN d[CHOOSE i \in DOMAIN d : d[i][1] = k][2] ELSE default

\* mutant: plain assignment d[k] = v, the last value wins
SetDefault_Overwrite(d, k, v) ==
  IF HasKey(d, k)
    THEN [i \in DOMAIN d |-> IF d[i][1] = k THEN <<k, v>> ELSE d[i]]
    ELSE Append(d, <<k, v>>)

\* dict.setdefault(k, v)
SetDefault(d, k, v) == IF HasKey(d, k) THEN d ELSE Append(d, <<k, v>>)

\* the slot a parsed key is stored under (the if/elif/else of the loop body)
NormalizedKey(key) ==
  LET key_upper == Upper(key) IN
  IF Contains(key_upper, "GEMINI") /\ Contains(key_upper, "API_KEY")
    THEN GEMINI_API_KEY
  ELSE IF Contains(key_upper, "OPENAI") /\ Contains(key_upper, "API_KEY")
    THEN OPENAI_API_KEY
  ELSE key_upper

\* whether the loop skips the raw line (blank or comment)
Skipped(raw_line) ==
  LET line == Strip(raw_line) IN line = <<>> \/ Head(line) = "#"

\* one iteration of the loop over content.splitlines()
ProcessLine(st, raw_line) ==
  LET line == Strip(raw_line)
      parsed == _parse_key_line(line)
  IN IF Skipped(raw_line) THEN st
     ELSE IF parsed = NoMatch
       THEN [st EXCEPT !.sequential =
               Append(@, _strip_quotes(_remove_inline_comment(line)))]
     ELSE [st EXCEPT !.values =
             SetDefault(@, NormalizedKey(parsed[1]),
                        _strip_quotes(_remove_inline_comment(parsed[2])))]

\* the loop: the mapping and the sequential list after the given lines
RECURSIVE ParseLines(_)
ParseLines(lines) ==
  IF lines = <<>> THEN [values |-> <<>>, sequential |-> <<>>]
  ELSE ProcessLine(ParseLines(SubSeq(lines, 1, Len(lines) - 1)),
                   lines[Len(lines)])

\* mutant: the entries are not tested for being non-empty
PositionalFill_NoEmptyTest(st) ==
  LET sequential == st.sequential
      v1 == IF sequential # <<>>
              THEN SetDefault(st.values, GEMINI_API_KEY, sequential[1])
              ELSE st.values
  IN IF Len(sequential) > 1
       THEN SetDefault(v1, OPENAI_API_KEY, sequential[2])
       ELSE v1

\* mutant: the unlabeled entries are assigned over what the labeled lines gave
PositionalFill_Assign(st) ==
  LET sequential == st.sequential
      v1 == IF sequential # <<>> /\ sequential[1] # <<>>
              THEN SetDefault_Overwrite(st.values, GEMINI_API_KEY, sequential[1])
              ELSE st.values
  IN IF Len(sequential) > 1 /\ sequential[2] # <<>>
       THEN SetDefault_Overwrite(v1, OPENAI_API_KEY, sequential[2])
       ELSE v1

\* the positional fallback after the loop
PositionalFill(st) ==
  LET sequential == st.sequential
      v1 == IF sequential # <<>> /\ sequential[1] # <<>>
              THEN SetDefault(st.values, GEMINI_API_KEY, sequential[1])
              ELSE st.values
  IN IF Len(sequential) > 1 /\ sequential[2] # <<>>
       THEN SetDefault(v1, OPENAI_API_KEY, sequential[2])
       ELSE v1

\* _load_keys_file; the content of an existing file is the sequence of its
\* lines (content.splitlines())
_load_keys_file(file) ==
  IF ~file.exists THEN <<>> ELSE PositionalFill(ParseLines(file.content))

\* ------------------------------------------------------------ .env content
\* the first line of the output, "# " followed by the Japanese words for
\* "environment variable settings" (one word token)
Header == <<"#", " ", "kankyo-hensu-settei">>

IsExtra(item) == item[1] \notin {GEMINI_API_KEY, OPENAI_API_KEY}

RECURSIVE JoinLines(_)
JoinLines(lines) ==
  IF lines = <<>> THEN <<>>
  ELSE IF Len(lines) = 1 THEN lines[1]
  ELSE lines[1] \o <<NL>> \o JoinLines(Tail(lines))

\* mutant: every key of the mapping is emitted in insertion order, the two
\* canonical keys only when the mapping holds them
_format_env_InsertionOrder(values) ==
  JoinLines(<<Header>> \o [i \in DOMAIN values |->
                            values[i][1] \o <<"=">> \o values[i][2]])
    \o <<NL>>

\* _format_env
_format_env(values) ==
  LET extra_keys == SelectSeq(values, IsExtra)
      lines == << Header,
                  GEMINI_API_KEY \o <<"=">> \o Get(values, GEMINI_API_KEY, <<>>),
                  OPENAI_API_KEY \o <<"=">> \o Get(values, OPENAI_API_KEY, <<>>) >>
               \o [i \in DOMAIN extra_keys |->
                     extra_keys[i][1] \o <<"=">> \o extra_keys[i][2]]
  IN JoinLines(lines) \o <<NL>>

\* -------------------------------------------------------------- the inputs
\* raw lines a Keys.txt of the model is made of
KeyLines ==
  { <<"GEMINI", "_", "API_KEY", "=", "k1">>,
    <<"gemini", "_", "api_key", ":", " ", DQ, "k2", DQ>>,
    <<"OPENAI", "_", "API_KEY", "=", "k3", " ", "#", " ", "note">>,
    <<"openai", "_", "api_key", "=">>,
    <<"my", "_", "Gemini", "_", "api_key", " ", "=", " ", SQ, SQ>>,
    <<"foo", "=", "bar">>,
    <<"FOO", ":", " ", "baz">>,
    <<"x", ":", "y", "=", "z">>,
    <<"k4">>,
    <<" ", SQ, "k5", SQ, " ", "#", "c">>,
    <<DQ, DQ>>,
    <<"#", " ", "GEMINI", "_", "API_KEY", "=", "k6">>,
    <<" ">> }

RECURSIVE SeqsUpTo(_, _)
SeqsUpTo(S, n) ==
  IF n = 0 THEN {<<>>}
  ELSE LET shorter == SeqsUpTo(S, n - 1) IN
       shorter \cup {Append(q, e) : q \in {r \in shorter : Len(r) = n - 1}, e \in S}

\* what Keys.txt can be: absent, or a file of at most MaxLines lines
KeysFiles == {NoFile} \cup {File(c) : c \in SeqsUpTo(KeyLines, MaxLines)}

\* a .env left by an earlier run or written by hand
OldEnv == File(<<"OLD", "=", "v", NL>>)

\* what the user types at the two key prompts
KeyInputs == {<<>>, <<"k7">>, <<" ", "k8", " ">>}
\* what the user types at the confirmation prompt of setup_environment
Answers == {<<"y">>, <<"Y">>, <<"n">>, <<>>, <<"yes">>, <<" ", "y">>}

\* what input() does: returns the typed text, or raises
InputResults(texts) ==
  {[raises |-> "", text |-> t] : t \in texts}
    \cup {[raises |-> e, text |-> <<>>] : e \in {"KeyboardInterrupt", "EOFError"}}

MARKER == "externally-managed-environment"
\* what the first pip install can end with (subprocess.run, check=False)
PipResults ==
  { [returncode |-> 0, stderr |-> <<>>],
    [returncode |-> 1, stderr |-> <<"error", ":", " ", MARKER>>],
    [returncode |-> 1, stderr |-> <<"ERROR", ":", " ", "no-matching-distribution">>] }
NoResult == [returncode |-> -1, stderr |-> <<>>]

sys_executable == "/usr/bin/python3"
\* _resolve_venv_python(Path(".venv")) on a POSIX system
_resolve_venv_python == ".venv/bin/python"

\* ---------------------------------------------------------------- the state
VARIABLES
  pythonVersionOk,  \* sys.version_info >= (3, 10)
  requirements,     \* requirements.txt exists
  venv,             \* ".venv": "absent", "ok", or "corrupt" (the directory
                    \* exists and its interpreter cannot be started)
  envFile,          \* ".env"
  keysFile,         \* "Keys.txt"; written by the user only, so what it holds
  keysRead,         \* is drawn when the script first looks at it (keysRead)
  pc,               \* where the script is
  stages,           \* the stage functions main() has called, in order
  checkResult,      \* what check_requirements returned
  result,           \* install_dependencies: the finished first pip install
  python_exec,      \* main: what install_dependencies returned
  venvAtStart,      \* .venv when install_dependencies was entered
  venvCreations,    \* runs of "python -m venv .venv"
  venvInstalled,    \* the pip install inside .venv succeeded
  launchedWith,     \* the interpreter run_application started
  exitStatus,       \* the process's exit status once pc = "exit"
  raised,           \* the exception that ended the script, "" if none
  answer,           \* setup_environment: the answer to the y/n prompt
  values,           \* create_env_from_keys: the mapping
  prompts,          \* the texts typed at the key prompts of this call
  outcome,          \* how this call of create_env_from_keys ended
  envAtCall,        \* .env when this call of create_env_from_keys began
  runs,             \* the number of finished calls of create_env_from_keys
  previous          \* the call before this one: what was typed, how it
                    \* ended and the .env it left

vars == <<pythonVersionOk, requirements, venv, envFile, keysFile, keysRead, pc,
          stages, checkResult, result, python_exec, venvAtStart, venvCreations,
          venvInstalled, launchedWith, exitStatus, raised, answer, values,
          prompts, outcome, envAtCall, runs, previous>>

fsVars == <<pythonVersionOk, requirements>>
installVars == <<result, venvAtStart, venvCreations, venvInstalled, venv>>
createVars == <<values, prompts, outcome, envAtCall, runs, previous, keysFile,
                keysRead, envFile>>
mainVars == <<stages, checkResult, python_exec, launchedWith, exitStatus,
              raised, answer>>

NoAnswer == <<"(not asked)">>
NoCall == [prompts |-> <<>>, outcome |-> "", env |-> NoFile]

InitCommon ==
  /\ envFile \in {NoFile, OldEnv}
  /\ keysFile = NoFile /\ keysRead = FALSE
  /\ stages = <<>>
  /\ checkResult = FALSE
  /\ result = NoResult
  /\ python_exec = None
  /\ venvAtStart = venv
  /\ venvCreations = 0
  /\ venvInstalled = FALSE
  /\ launchedWith = None
  /\ exitStatus = 0
  /\ raised = ""
  /\ answer = NoAnswer
  /\ values = <<>>
  /\ prompts = <<>>
  /\ outcome = ""
  /\ envAtCall = NoFile
  /\ runs = 0
  /\ previous = NoCall

\* the script is started: python run_local.py
Init ==
  /\ pythonVersionOk \in BOOLEAN
  /\ requirements \in BOOLEAN
  /\ venv \in {"absent", "ok", "corrupt"}
  /\ pc = "main"
  /\ InitCommon

\* an uncaught exception ends the script with a traceback and status 1
Uncaught(exc) ==
  /\ pc' = "exit"
  /\ raised' = exc
  /\ exitStatus' = 1

\* ------------------------------------------------------------------ main()
\* check_requirements (lines 12-27), called from main (line 243)
check_requirements ==
  /\ pc = "main"
  /\ stages' = Append(stages, "check_requirements")
  /\ checkResult' = (pythonVersionOk /\ requirements)
  /\ pc' = "checked"
  /\ UNCHANGED <<fsVars, installVars, createVars, python_exec, launchedWith,
                 exitStatus, raised, answer>>

\* main, lines 243-244: if not check_requirements(): sys.exit(1)
MainAfterCheck ==
  /\ pc = "checked"
  /\ IF ~checkResult
       THEN pc' = "exit" /\ exitStatus' = 1
       ELSE pc' = "install" /\ exitStatus' = exitStatus
  /\ UNCHANGED <<fsVars, installVars, createVars, stages, checkResult,
                 python_exec, launchedWith, raised, answer>>

\* what install_dependencies does once the first pip install has ended with r:
\* "returned" with a value, or "fallback" into _install_with_virtualenv
InstallBranch(r) ==
  IF r.returncode = 0 THEN [to |-> "installed", value |-> sys_executable]
  ELSE IF Contains(r.stderr, MARKER) THEN [to |-> "venv_create", value |-> None]
  ELSE [to |-> "installed", value |-> None]

\* install_dependencies, lines 29-62
install_dependencies ==
  /\ pc = "install"
  /\ stages' = Append(stages, "install_dependencies")
  /\ venvAtStart' = venv
  /\ \E r \in PipResults :
       /\ result' = r
       /\ pc' = InstallBranch(r).to
       /\ python_exec' = InstallBranch(r).value
  /\ UNCHANGED <<fsVars, createVars, venv, venvCreations, venvInstalled,
                 checkResult, launchedWith, exitStatus, raised, answer>>

\* mutant: the environment is created without looking for the directory
CreatesVenv_Always(v) == v \in {"absent", "ok", "corrupt"}

\* whether _install_with_virtualenv runs "python -m venv .venv"
CreatesVenv(v) == v = "absent"

\* _install_with_virtualenv, lines 69-75: create .venv unless it exists
venv_create ==
  /\ pc = "venv_create"
  /\ IF CreatesVenv(venv)
       THEN /\ venvCreations' = venvCreations + 1
            /\ \/ venv' = "ok" /\ pc' = "venv_install"
               \* CalledProcessError: caught, return None; what is left of
               \* .venv is not cleaned up
               \/ venv' \in {"absent", "corrupt"} /\ pc' = "installed"
       ELSE /\ pc' = "venv_install"
            /\ UNCHANGED <<venv, venvCreations>>
  /\ UNCHANGED <<fsVars, createVars, mainVars, result, venvAtStart,
                 venvInstalled>>

\* _install_with_virtualenv, lines 77-96: pip install inside .venv
venv_install ==
  /\ pc = "venv_install"
  /\ \/ \* the interpreter starts and pip succeeds
        /\ venv = "ok"
        /\ venvInstalled' = TRUE
        /\ python_exec' = _resolve_venv_python
        /\ pc' = "installed"
        /\ UNCHANGED <<exitStatus, raised>>
     \/ \* the interpreter starts and pip fails: CalledProcessError, caught
        /\ venv = "ok"
        /\ python_exec' = None
        /\ pc' = "installed"
        /\ UNCHANGED <<venvInstalled, exitStatus, raised>>
     \/ \* the interpreter cannot be started: subprocess.run raises
        \* FileNotFoundError, which the except clause does not name
        /\ venv = "corrupt"
        /\ Uncaught("FileNotFoundError")
        /\ UNCHANGED <<venvInstalled, python_exec>>
  /\ UNCHANGED <<fsVars, createVars, venv, result, venvAtStart, venvCreations,
                 stages, checkResult, launchedWith, answer>>

\* mutant: main goes on without looking at what install_dependencies returned
MainAfterInstall_NoCheck ==
  /\ pc = "installed"
  /\ pc' = "setup"
  /\ UNCHANGED <<fsVars, installVars, createVars, mainVars>>

\* main, lines 248-249: if not python_exec: sys.exit(1)
MainAfterInstall ==
  /\ pc = "installed"
  /\ IF python_exec = None
       THEN pc' = "exit" /\ exitStatus' = 1
       ELSE pc' = "setup" /\ exitStatus' = exitStatus
  /\ UNCHANGED <<fsVars, installVars, createVars, stages, checkResult,
                 python_exec, launchedWith, raised, answer>>

\* ------------------------------------------------------- setup_environment
\* setup_environment, lines 107-114: look for .env
setup_environment ==
  /\ pc = "setup"
  /\ stages' = Append(stages, "setup_environment")
  /\ pc' = IF ~envFile.exists THEN "confirm" ELSE "run"
  /\ UNCHANGED <<fsVars, installVars, createVars, checkResult, python_exec,
                 launchedWith, exitStatus, raised, answer>>

\* mutant: any answer that starts with y counts as yes
Confirmed_Prefix(text) == text # <<>> /\ Lower(text)[1] \in {"y", "yes"}

\* whether the answer to the confirmation prompt starts env creation
Confirmed(text) == Lower(text) = <<"y">>

\* setup_environment, lines 116-117: input().lower() == 'y'
setup_confirm ==
  /\ pc = "confirm"
  /\ \E in \in InputResults(Answers) :
       IF in.raises # ""
         THEN Uncaught(in.raises) /\ UNCHANGED answer
         ELSE /\ answer' = in.text
              /\ pc' = IF Confirmed(in.text) THEN "create_env" ELSE "run"
              /\ UNCHANGED <<exitStatus, raised>>
  /\ UNCHANGED <<fsVars, installVars, createVars, stages, checkResult,
                 python_exec, launchedWith>>

\* ---------------------------------------------------- create_env_from_keys
\* mutant: only "except Exception", which does not catch KeyboardInterrupt
Handler_ExceptionOnly(exc) ==
  CASE exc \in {"EOFError", "OSError"} -> "failed"
    [] OTHER -> ""

\* the except clauses of create_env_from_keys (lines 133-136): the outcome
\* reported for an exception raised inside the try block, "" when no clause
\* matches it.  EOFError and OSError are subclasses of Exception.
Handler(exc) ==
  CASE exc = "KeyboardInterrupt" -> "interrupted"
    [] exc \in {"EOFError", "OSError"} -> "failed"
    [] OTHER -> ""

\* the call ends
Return(out) ==
  /\ outcome' = out
  /\ pc' = "created"
  /\ runs' = runs + 1
  /\ UNCHANGED <<exitStatus, raised>>

\* an exception raised inside the try block of create_env_from_keys
Raise(exc) ==
  IF Handler(exc) # ""
    THEN Return(Handler(exc))
    ELSE Uncaught(exc) /\ UNCHANGED <<outcome, runs>>

\* create_env_from_keys, lines 123-129: load Keys.txt
create_env_from_keys ==
  /\ pc = "create_env"
  /\ envAtCall' = envFile
  /\ prompts' = <<>>
  /\ outcome' = ""
  /\ \E f \in (IF keysRead THEN {keysFile} ELSE KeysFiles) :
       /\ keysFile' = f
       /\ values' = _load_keys_file(f)
       /\ pc' = IF values' = <<>> THEN "prompt_gemini" ELSE "write_env"
  /\ keysRead' = TRUE
  /\ previous' = IF runs = 0 THEN NoCall
                 ELSE [prompts |-> prompts, outcome |-> outcome, env |-> envFile]
  /\ UNCHANGED <<fsVars, installVars, mainVars, envFile, runs>>

\* _prompt_for_keys, line 142
prompt_gemini ==
  /\ pc = "prompt_gemini"
  /\ \E in \in InputResults(KeyInputs) :
       IF in.raises # ""
         THEN Raise(in.raises) /\ UNCHANGED prompts
         ELSE /\ prompts' = Append(prompts, in.text)
              /\ pc' = "prompt_openai"
              /\ UNCHANGED <<outcome, runs, exitStatus, raised>>
  /\ UNCHANGED <<fsVars, installVars, values, envAtCall, previous, keysFile,
                 keysRead, envFile, stages, checkResult, python_exec,
                 launchedWith, answer>>

\* _prompt_for_keys, line 144: the mapping built from the two typed texts
PromptedValues(gemini_text, openai_text) ==
  << <<GEMINI_API_KEY, Strip(gemini_text)>>,
     <<OPENAI_API_KEY, Strip(openai_text)>> >>

\* _prompt_for_keys, lines 143-144
prompt_openai ==
  /\ pc = "prompt_openai"
  /\ \E in \in InputResults(KeyInputs) :
       IF in.raises # ""
         THEN Raise(in.raises) /\ UNCHANGED <<prompts, values>>
         ELSE /\ prompts' = Append(prompts, in.text)
              /\ values' = PromptedValues(prompts[1], in.text)
              /\ pc' = "write_env"
              /\ UNCHANGED <<outcome, runs, exitStatus, raised>>
  /\ UNCHANGED <<fsVars, installVars, envAtCall, previous, keysFile, keysRead,
                 envFile, stages, checkResult, python_exec, launchedWith,
                 answer>>

\* mutant: the file is opened for appending
WriteText_Append(old, text) == File(old.content \o text)

\* what Path(".env").write_text(text) leaves in a .env that held old
WriteText(old, text) == File(text)

\* create_env_from_keys, lines 131-132: .env is written
write_env ==
  /\ pc = "write_env"
  /\ envFile' = WriteText(envFile, _format_env(values))
  /\ Return("written")
  /\ UNCHANGED <<fsVars, installVars, values, prompts, envAtCall, previous,
                 keysFile, keysRead, stages, checkResult, python_exec,
                 launchedWith, answer>>

\* create_env_from_keys, line 131 and lines 135-136: .env cannot be opened
\* for writing (OSError) and is left as it was
write_env_fails ==
  /\ pc = "write_env"
  /\ Raise("OSError")
  /\ UNCHANGED <<fsVars, installVars, values, prompts, envAtCall, previous,
                 keysFile, keysRead, envFile, stages, checkResult, python_exec,
                 launchedWith, answer>>

\* setup_environment, line 119, after create_env_from_keys has returned
setup_done ==
  /\ pc = "created"
  /\ pc' = "run"
  /\ UNCHANGED <<fsVars, installVars, createVars, mainVars>>

\* --------------------------------------------------------- run_application
\* the interpreter main() hands to run_application (line 255)
LaunchArg(exec) == exec

\* run_application, lines 218-235: the child ends normally, fails
\* (CalledProcessError) or is interrupted (KeyboardInterrupt); all three are
\* caught and reported, and main() returns
run_application ==
  /\ pc = "run"
  /\ stages' = Append(stages, "run_application")
  /\ launchedWith' = LaunchArg(python_exec)
  /\ pc' = "exit"
  /\ exitStatus' = 0
  /\ UNCHANGED <<fsVars, installVars, createVars, checkResult, python_exec,
                 raised, answer>>

Next ==
  \/ check_requirements
  \/ MainAfterCheck
  \/ install_dependencies
  \/ venv_create
  \/ venv_install
  \/ MainAfterInstall
  \/ setup_environment
  \/ setup_confirm
  \/ create_env_from_keys
  \/ prompt_gemini
  \/ prompt_openai
  \/ write_env
  \/ write_env_fails
  \/ setup_done
  \/ run_application

Spec == Init /\ [][Next]_vars

\* ------------------------------- create_env_from_keys called on its own
\* create_env_from_keys is called directly, as a test does, in a directory
\* the caller can write to, whatever .env holds, and called again afterwards
InitEnv ==
  /\ pythonVersionOk = TRUE
  /\ requirements = TRUE
  /\ venv = "absent"
  /\ pc = "create_env"
  /\ InitCommon

call_again ==
  /\ pc = "created"
  /\ runs < MaxRuns
  /\ pc' = "create_env"
  /\ UNCHANGED <<fsVars, installVars, createVars, mainVars>>

NextEnv ==
  \/ create_env_from_keys
  \/ prompt_gemini
  \/ prompt_openai
  \/ write_env
  \/ call_again

SpecEnv == InitEnv /\ [][NextEnv]_vars

\* ===================================================== the claims' notions
StageOrder == <<"check_requirements", "install_dependencies",
                "setup_environment", "run_application">>

InStages(name) == \E i \in DOMAIN stages : stages[i] = name

\* the first pip install failed with the externally-managed marker
FallbackTaken ==
  result.returncode # 0 /\ Contains(result.stderr, MARKER)

\* install_dependencies has been called and is no longer running
InstallOver ==
  Len(stages) >= 2 /\ pc \notin {"venv_create", "venv_install"}

\* install_dependencies ended by raising instead of returning
InstallRaised == Len(stages) = 2 /\ pc = "exit" /\ raised # ""

\* a raw line of Keys.txt the loop parses as a named key / as an unlabeled value
Labeled(raw) == ~Skipped(raw) /\ _parse_key_line(Strip(raw)) # NoMatch
Unlabeled(raw) == ~Skipped(raw) /\ _parse_key_line(Strip(raw)) = NoMatch
LineKey(raw) == NormalizedKey(_parse_key_line(Strip(raw))[1])
LineValue(raw) ==
  _strip_quotes(_remove_inline_comment(_parse_key_line(Strip(raw))[2]))
Entry(raw) == _strip_quotes(_remove_inline_comment(Strip(raw)))

ClassifiedTo(lines, i, k) == Labeled(lines[i]) /\ LineKey(lines[i]) = k
LabeledFor(lines, k) == \E i \in DOMAIN lines : ClassifiedTo(lines, i, k)
FirstLineOf(lines, k) ==
  CHOOSE i \in DOMAIN lines :
    ClassifiedTo(lines, i, k) /\ \A j \in 1..(i - 1) : ~ClassifiedTo(lines, j, k)

\* the entries of the unlabeled lines, in file order
UnlabeledEntries(lines) ==
  LET u == SelectSeq(lines, Unlabeled) IN [i \in DOMAIN u |-> Entry(u[i])]

\* _load_keys_file has just returned `values` for an existing Keys.txt
Loaded ==
  /\ keysRead /\ keysFile.exists /\ prompts = <<>>
  /\ pc \in {"prompt_gemini", "write_env"}

\* the lines of a text, each ended by a newline (an unended rest is a line too)
RECURSIVE SplitLines(_)
SplitLines(t) ==
  IF t = <<>> THEN <<>>
  ELSE IF ~Contains(t, NL) THEN <<t>>
  ELSE <<SplitLeft(t, NL)>> \o SplitLines(SplitRight(t, NL))

EndsWithNewline(t) == t # <<>> /\ t[Len(t)] = NL

\* this call of create_env_from_keys has written .env
Written == pc = "created" /\ outcome = "written"

\* ============================================================== the claims
\* C1: main() calls the stages at most once each, in the order
\* check_requirements, install_dependencies, setup_environment,
\* run_application; it exits at once with a non-zero status when
\* check_requirements returned false or install_dependencies returned no
\* interpreter; run_application is reached only after the check returned true
\* and the install returned a path, and it is launched with that very path.
C1_StagesInOrder ==
  /\ \E n \in 0..Len(StageOrder) : stages = SubSeq(StageOrder, 1, n)
  /\ (stages # <<>> /\ pc # "checked" /\ ~checkResult)
       => (pc = "exit" /\ exitStatus # 0 /\ Len(stages) = 1)
  /\ (InstallOver /\ pc # "installed" /\ ~InstallRaised /\ python_exec = None)
       => (pc = "exit" /\ exitStatus # 0 /\ Len(stages) = 2)
  /\ InStages("run_application")
       => /\ checkResult
          /\ python_exec \in {sys_executable, _resolve_venv_python}
          /\ launchedWith = python_exec

\* C1 witness: a run through all four stages that launched the interpreter of
\* the virtual environment
C1_Witness ==
  /\ pc = "exit" /\ stages = StageOrder
  /\ launchedWith = _resolve_venv_python /\ exitStatus = 0

\* C3: once install_dependencies is over, "python -m venv .venv" has run
\* exactly once if the first pip install failed with the marker and .venv did
\* not exist, and not at all otherwise (the install succeeded, failed without
\* the marker, or .venv existed already).
C3_VenvCreatedOnce ==
  /\ venvCreations <= 1
  /\ InstallOver =>
       venvCreations = (IF FallbackTaken /\ venvAtStart = "absent" THEN 1 ELSE 0)

\* C3 witness: the fallback was taken without a .venv and has created it once
C3_Witness ==
  /\ pc = "installed" /\ FallbackTaken
  /\ venvAtStart = "absent" /\ venvCreations = 1 /\ venv = "ok"

\* C4 (as claimed): whenever the fallback was taken, install_dependencies
\* returns instead of raising, also for a corrupted .venv, and it returns the
\* interpreter of .venv only when the install inside .venv succeeded, None
\* otherwise.
C4_FallbackNeverRaises ==
  (FallbackTaken /\ InstallOver) =>
     /\ ~InstallRaised
     /\ venvInstalled => python_exec = _resolve_venv_python
     /\ ~venvInstalled => python_exec = None

\* C10: inside a run of main(), .env changes only in a step taken while .env
\* was absent and the confirmation was answered y or Y; while the prompts and
\* the write of create_env_from_keys run, and after any other answer, there is
\* no .env; and once setup_environment has been answered, or has found a
\* .env, the run ends only after run_application was called.
C10_SetupLeavesEnvAlone ==
  /\ [][envFile' # envFile =>
          (~envFile.exists /\ answer \in {<<"y">>, <<"Y">>})]_vars
  /\ [](pc \in {"confirm", "create_env", "prompt_gemini", "prompt_openai",
                "write_env"} => ~envFile.exists)
  /\ []((answer # NoAnswer /\ answer \notin {<<"y">>, <<"Y">>})
          => (~envFile.exists /\ runs = 0))
  /\ []((pc = "exit" /\ InStages("setup_environment")
           /\ (answer # NoAnswer \/ envFile.exists))
          => (InStages("run_application") /\ raised = ""))

\* C10 witness: the user declined, no .env was created, the application ran
C10_Witness ==
  /\ pc = "exit" /\ answer = <<"n">> /\ ~envFile.exists
  /\ InStages("run_application")

\* C2: a KeyboardInterrupt at either key prompt ends create_env_from_keys
\* without a write: while the prompts run .env is what it was when the call
\* began, after the reported interrupt it still is (an absent .env stays
\* absent), and the interrupt never leaves create_env_from_keys.
C2_InterruptWritesNothing ==
  /\ raised # "KeyboardInterrupt"
  /\ pc \in {"prompt_gemini", "prompt_openai"} => envFile = envAtCall
  /\ outcome = "interrupted" =>
       (pc \in {"created", "create_env"} /\ envFile = envAtCall)

\* C2 witness: the interrupt came at the second prompt, with no .env before
\* the call and none after it
C2_Witness ==
  /\ pc = "created" /\ outcome = "interrupted" /\ Len(prompts) = 1
  /\ ~envAtCall.exists /\ ~envFile.exists

\* C5: in _load_keys_file a key that has a value keeps it: every key of the
\* mapping before a line is processed has the same value after it, every key
\* of the mapping after the last line has the same value in the returned
\* mapping (after the positional fallback), and the returned value of a key
\* is the value of the first line classified to it, empty or not.
C5_FirstValueWins ==
  Loaded =>
    LET lines == keysFile.content
        last == ParseLines(lines).values
    IN
    /\ \A n \in 1..Len(lines) :
         LET before == ParseLines(SubSeq(lines, 1, n - 1)).values
             after == ParseLines(SubSeq(lines, 1, n)).values
         IN \A i \in DOMAIN before :
              Get(after, before[i][1], <<"(unset)">>) = before[i][2]
    /\ \A i \in DOMAIN last :
         Get(values, last[i][1], <<"(unset)">>) = last[i][2]
    /\ \A i \in DOMAIN lines :
         Labeled(lines[i]) =>
           Get(values, LineKey(lines[i]), <<"(unset)">>)
             = LineValue(lines[FirstLineOf(lines, LineKey(lines[i]))])

\* C5 witness: the first of two gemini lines has the empty value, kept
C5_Witness ==
  /\ Loaded
  /\ \E i, j \in DOMAIN keysFile.content :
       /\ i < j
       /\ ClassifiedTo(keysFile.content, i, GEMINI_API_KEY)
       /\ ClassifiedTo(keysFile.content, j, GEMINI_API_KEY)
       /\ LineValue(keysFile.content[i]) = <<>>
       /\ LineValue(keysFile.content[j]) # <<>>
  /\ HasKey(values, GEMINI_API_KEY)
  /\ Get(values, GEMINI_API_KEY, <<"(unset)">>) = <<>>

\* the lines of the written .env from the second/first line on are the two
\* canonical keys and then the extra keys of the mapping, in the order in
\* which Keys.txt first names them
KeyLinesAt(L, first) ==
  LET extras == SelectSeq(values, IsExtra) IN
  /\ Len(L) = first + 1 + Len(extras)
  /\ L[first] = GEMINI_API_KEY \o <<"=">> \o Get(values, GEMINI_API_KEY, <<>>)
  /\ L[first + 1] = OPENAI_API_KEY \o <<"=">> \o Get(values, OPENAI_API_KEY, <<>>)
  /\ \A i \in DOMAIN extras :
       L[first + 1 + i] = extras[i][1] \o <<"=">> \o extras[i][2]
  /\ \A i \in first..Len(L) : Contains(L[i], "=")
  /\ \A i, j \in DOMAIN extras :
       i < j => FirstLineOf(keysFile.content, extras[i][1])
                  < FirstLineOf(keysFile.content, extras[j][1])
  /\ (~keysFile.exists /\ Len(prompts) = 2
        /\ Strip(prompts[1]) = <<>> /\ Strip(prompts[2]) = <<>>)
       => (Len(L) = first + 1
           /\ L[first] = GEMINI_API_KEY \o <<"=">>
           /\ L[first + 1] = OPENAI_API_KEY \o <<"=">>)

\* C6 (as claimed): the written .env ends with a newline and holds only
\* KEY=VALUE lines: GEMINI_API_KEY first, OPENAI_API_KEY second, then the
\* extra keys in the order first met, and no other line.
C6_OnlyKeyValueLines ==
  Written =>
    /\ EndsWithNewline(envFile.content)
    /\ KeyLinesAt(SplitLines(envFile.content), 1)

\* C6 (amended): the written .env ends with a newline; its first line is the
\* fixed comment header, then GEMINI_API_KEY, OPENAI_API_KEY and the extra
\* keys in the order first met, all as KEY=VALUE, and no other line.
C6_HeaderThenKeyValueLines ==
  Written =>
    /\ EndsWithNewline(envFile.content)
    /\ SplitLines(envFile.content)[1] = <<"#", " ", "kankyo-hensu-settei">>
    /\ KeyLinesAt(SplitLines(envFile.content), 2)

\* C6 witness: a .env written with two extra keys after the canonical ones
C6_Witness ==
  /\ Written
  /\ Len(SelectSeq(values, IsExtra)) = 2
  /\ Len(SplitLines(envFile.content)) = 5

\* what C7 says of the slots of the returned mapping: a slot with a labeled
\* line holds that line's value wherever the unlabeled lines stand; a slot
\* without one is set exactly when the unlabeled entry of its position (the
\* first for GEMINI_API_KEY, the second for OPENAI_API_KEY) exists and is
\* non-empty, and then holds that entry
PositionalRule(lines) ==
  LET u == UnlabeledEntries(lines)
      slot == <<GEMINI_API_KEY, OPENAI_API_KEY>>
  IN \A p \in 1..2 :
       IF LabeledFor(lines, slot[p])
         THEN /\ HasKey(values, slot[p])
              /\ Get(values, slot[p], <<"(unset)">>)
                   = LineValue(lines[FirstLineOf(lines, slot[p])])
         ELSE /\ HasKey(values, slot[p]) <=> (Len(u) >= p /\ u[p] # <<>>)
              /\ HasKey(values, slot[p])
                   => Get(values, slot[p], <<"(unset)">>) = u[p]

\* a Keys.txt of two lines, both unlabeled
TwoUnlabeled(lines) ==
  Len(lines) = 2 /\ Unlabeled(lines[1]) /\ Unlabeled(lines[2])

\* the first line's value is the primary credential, the second the secondary
FirstPrimarySecondSecondary(lines) ==
  values = << <<GEMINI_API_KEY, Entry(lines[1])>>,
              <<OPENAI_API_KEY, Entry(lines[2])>> >>

\* C7 (as claimed): the positional rule, and for every file of two unlabeled
\* non-empty lines the first line's value is the primary credential and the
\* second the secondary.
C7_PositionalFill ==
  Loaded =>
    /\ PositionalRule(keysFile.content)
    /\ TwoUnlabeled(keysFile.content)
         => FirstPrimarySecondSecondary(keysFile.content)

\* C7 (amended): the positional rule, and for every file of two unlabeled
\* lines whose values are non-empty after comment and quote stripping the
\* first line's value is the primary credential and the second the secondary.
C7_PositionalFillNonEmptyValues ==
  Loaded =>
    /\ PositionalRule(keysFile.content)
    /\ (TwoUnlabeled(keysFile.content)
          /\ Entry(keysFile.content[1]) # <<>>
          /\ Entry(keysFile.content[2]) # <<>>)
         => FirstPrimarySecondSecondary(keysFile.content)

\* C7 witness: a labeled OPENAI line before two unlabeled lines: the first
\* unlabeled value fills the primary slot, the labeled value keeps the
\* secondary one
C7_Witness ==
  /\ Loaded
  /\ Len(keysFile.content) = 3
  /\ ClassifiedTo(keysFile.content, 1, OPENAI_API_KEY)
  /\ Unlabeled(keysFile.content[2]) /\ Unlabeled(keysFile.content[3])
  /\ Entry(keysFile.content[3]) # <<>>
  /\ values = << <<OPENAI_API_KEY, LineValue(keysFile.content[1])>>,
                 <<GEMINI_API_KEY, Entry(keysFile.content[2])>> >>

\* a credential slot of the returned mapping holds a value that no labeled
\* line gave it
FilledFromUnlabeled(lines, k) == HasKey(values, k) /\ ~LabeledFor(lines, k)

\* C8 (as claimed): when at least one line of Keys.txt was parsed as a named
\* key, neither credential slot holds the value of an unlabeled line.
C8_FallbackOnlyWithoutNamedKeys ==
  Loaded =>
    ((\E i \in DOMAIN keysFile.content : Labeled(keysFile.content[i]))
       => /\ ~FilledFromUnlabeled(keysFile.content, GEMINI_API_KEY)
          /\ ~FilledFromUnlabeled(keysFile.content, OPENAI_API_KEY))

\* C8 (amended): a credential slot holds the value of an unlabeled line only
\* when no line of Keys.txt was parsed as a named key of that slot; a slot
\* with such a line holds what the lines parsed as named keys gave it.
C8_FallbackOnlyForUnnamedSlot ==
  Loaded =>
    \A k \in {GEMINI_API_KEY, OPENAI_API_KEY} :
      LabeledFor(keysFile.content, k) =>
        /\ LET parsed == ParseLines(keysFile.content).values IN
             /\ HasKey(parsed, k)
             /\ Get(values, k, <<"(unset)">>) = Get(parsed, k, <<"(none)">>)
        /\ \E i \in DOMAIN keysFile.content :
             /\ ClassifiedTo(keysFile.content, i, k)
             /\ Get(values, k, <<"(unset)">>) = LineValue(keysFile.content[i])

\* C8 witness: a labeled secondary credential after an unlabeled line: the
\* unlabeled value fills the primary slot only
C8_Witness ==
  /\ Loaded
  /\ Len(keysFile.content) = 2
  /\ Unlabeled(keysFile.content[1])
  /\ ClassifiedTo(keysFile.content, 2, OPENAI_API_KEY)
  /\ FilledFromUnlabeled(keysFile.content, GEMINI_API_KEY)
  /\ Get(values, OPENAI_API_KEY, <<"(unset)">>) = LineValue(keysFile.content[2])

\* C9: a call of create_env_from_keys that completes leaves in .env exactly
\* the formatted mapping of that call, whatever .env held, and two
\* consecutive completed calls with the same Keys.txt and the same typed
\* texts leave the same .env.
C9_OverwritesFully ==
  /\ Written =>
       /\ envFile.exists
       /\ envFile.content = _format_env(values)
       /\ ~Contains(envFile.content, "OLD")
  /\ (Written /\ previous.outcome = "written" /\ previous.prompts = prompts)
       => envFile = previous.env

\* C9 witness: the second of two completed calls with the same typed texts
\* has rewritten the .env the first one wrote
C9_Witness ==
  /\ Written /\ runs = 2
  /\ previous.outcome = "written"
  /\ previous.prompts = prompts /\ Len(prompts) = 2
  /\ envAtCall = previous.env /\ envFile = envAtCall

====
